---- MODULE Spec2Model ----
(***************************************************************************)
(* Model of data-ingestion-and-preparation/file-access.ipynb: the notebook *)
(* kernel (the Python names the cells bind), the platform data store (the  *)
(* "users" container seen through the /User mount, v3io:// URLs and the    *)
(* Frames client) and one action per code cell.                            *)
(***************************************************************************)
EXTENDS Integers, Sequences, FiniteSets, TLC

\* ------------------------------------------------------------------ bounds
MaxRows == 2        \* data rows of the sample CSV file
MaxParts == 2       \* partitions of a DataFrame scanned from a table
MaxReruns == 1      \* executions of cells that had already run

\* --------------------------------------------------------------- constants
VolumeThreshold == 20000
CoalesceTarget == 1
\* the code cells of the notebook, in document order
CellOrder == <<"Imports", "CreateClient", "InitVariables", "MakeSampleDir",
               "Download", "PandasRead", "FramesWrite", "SparkRead",
               "SparkWriteKv", "SparkLoad", "SparkWriteCsv", "ListSampleDir",
               "DeleteData", "SparkStop">>
NumCells == Len(CellOrder)

Users == {"iguazio"}
ISINs == {<<"A">>, <<"B">>}
VolumeTexts == {<<"2", "0", "0", "0", "0">>, <<"2", "0", "0", "0", "1">>}
Columns == <<"ISIN", "TradedVolume">>

\* ------------------------------------------------------------------ values
\* A field of a CSV file is text (a sequence of characters).  A DataFrame or
\* table attribute is typed: a string keeps the text, a long holds the number.
Str(t) == [str |-> t]
Long(n) == [long |-> n]
IsLong(v) == DOMAIN v = {"long"}

DigitChars == <<"0", "1", "2", "3", "4", "5", "6", "7", "8", "9">>
IsDigit(c) == \E i \in 1..10 : DigitChars[i] = c
DigitVal(c) == (CHOOSE i \in 1..10 : DigitChars[i] = c) - 1
IsNumeric(t) == Len(t) > 0 /\ \A i \in 1..Len(t) : IsDigit(t[i])

RECURSIVE ParseInt(_)
ParseInt(t) ==
    IF Len(t) = 0 THEN 0
    ELSE 10 * ParseInt(SubSeq(t, 1, Len(t) - 1)) + DigitVal(t[Len(t)])

RECURSIVE FormatInt(_)
FormatInt(n) ==
    IF n < 10 THEN <<DigitChars[n + 1]>>
    ELSE Append(FormatInt(n \div 10), DigitChars[(n % 10) + 1])

\* the text a typed value is written as
ToText(v) == IF IsLong(v) THEN FormatInt(v.long) ELSE v.str
\* the type a parser that infers types gives a column holding these texts
InferType(texts) ==
    IF texts # {} /\ \A t \in texts : IsNumeric(t) THEN "long" ELSE "string"
\* a text field read as a value of the column's type
Typed(type, t) == IF type = "long" THEN Long(ParseInt(t)) ELSE Str(t)
\* the number a value has in a numeric comparison (a string operand is cast)
CastLong(v) == IF IsLong(v) THEN v.long ELSE ParseInt(v.str)

\* ------------------------------------------------------------------- paths
RelPath(segs) == [root |-> "rel", segs |-> segs]
FsPath(segs) == [root |-> "fs", segs |-> segs]
UrlPath(segs) == [root |-> "v3io", segs |-> segs]

\* os.path.join: an absolute second path replaces the first
PathJoin(base, rel) ==
    IF rel.root # "rel" THEN rel
    ELSE [root |-> base.root, segs |-> base.segs \o rel.segs]

V3ioHomeUrl_NoUser(u) == UrlPath(<<"users">>)
\* $V3IO_HOME_URL of the running user
V3ioHomeUrl(u) == UrlPath(<<"users", u>>)

\* the data-store location (container, then the path in it) a local
\* file-system path denotes
ResolveFs(p, u) ==
    IF p.segs[1] = "User" THEN <<"users", u>> \o Tail(p.segs)
    ELSE Tail(p.segs)
\* the data-store location a v3io:// URL denotes
ResolveUrl(p) == p.segs
ResolveFrames_Home(container, p, u) == <<container, u>> \o p.segs
\* the data-store location of a table path given to a Frames client of the
\* running user u: the path is taken from the root of the client's container
ResolveFrames(container, p, u) == <<container>> \o p.segs

SampleDirLiteral == FsPath(<<"User", "examples", "stocks">>)
CsvLiteral == FsPath(<<"User", "examples", "stocks", "stocks_example.csv">>)

\* -------------------------------------------------------------- data store
\* fs maps every existing location to its node: a directory, a file with its
\* rows, or a NoSQL table (a directory to file-system commands).
DirNode == [kind |-> "dir"]
FileNode(rows) == [kind |-> "file", rows |-> rows]
TableNode(key, schema, items) ==
    [kind |-> "table", key |-> key, schema |-> schema, items |-> items]

Exists(f, loc) == loc \in DOMAIN f
IsDirLike(f, loc) == Exists(f, loc) /\ f[loc].kind \in {"dir", "table"}
Parent(loc) == SubSeq(loc, 1, Len(loc) - 1)
IsPrefix(a, b) == Len(a) <= Len(b) /\ SubSeq(b, 1, Len(a)) = a
Ancestors(loc) == {SubSeq(loc, 1, n) : n \in 1..Len(loc)}

Put(f, loc, node) ==
    [l \in DOMAIN f \cup {loc} |-> IF l = loc THEN node ELSE f[l]]
\* mkdir -p: the directory and every missing ancestor
MkdirP(f, loc) ==
    [l \in DOMAIN f \cup Ancestors(loc) |-> IF l \in DOMAIN f THEN f[l] ELSE DirNode]
\* rm -rf: the location and everything below it
RmRf(f, loc) == [l \in {m \in DOMAIN f : ~IsPrefix(loc, m)} |-> f[l]]
\* the names ls prints for a directory, with the kind ls -l shows
Ls(f, loc) ==
    {[name |-> l[Len(l)], type |-> IF f[l].kind = "file" THEN "-" ELSE "d"] :
        l \in {m \in DOMAIN f : Len(m) = Len(loc) + 1 /\ IsPrefix(loc, m)}}

\* ------------------------------------------------------------ kernel names
Unbound == [kind |-> "unbound"]
IsBound(v) == v # Unbound

\* ------------------------------------------------------------------- rows
\* the rows of a CSV file: one record of text fields per line after the header
TextRow(isin, vol) == [ISIN |-> isin, TradedVolume |-> vol]
TextRows == {TextRow(i, v) : i \in ISINs, v \in VolumeTexts}
RECURSIVE SeqsUpTo(_, _)
SeqsUpTo(S, n) ==
    IF n = 0 THEN {<<>>}
    ELSE LET shorter == SeqsUpTo(S, n - 1)
         IN  shorter \cup {Append(s, x) : s \in {t \in shorter : Len(t) = n - 1}, x \in S}

ColumnTexts(rows, col) == {rows[i][col] : i \in 1..Len(rows)}
AllString == [c \in {Columns[i] : i \in 1..Len(Columns)} |-> "string"]
InferredSchema(rows) ==
    [c \in {Columns[i] : i \in 1..Len(Columns)} |-> InferType(ColumnTexts(rows, c))]
TypedRow(schema, r) == [c \in DOMAIN r |-> Typed(schema[c], r[c])]
TypedRows(schema, rows) == [i \in 1..Len(rows) |-> TypedRow(schema, rows[i])]
WrittenRow(r) == [c \in DOMAIN r |-> ToText(r[c])]

\* ------------------------------------------------------------------ pandas
\* pd.read_csv: the file is read at once and every column gets the type its
\* values have
PandasReadCsv(file) ==
    [kind |-> "pandas", index |-> "", schema |-> InferredSchema(file.rows),
     rows |-> TypedRows(InferredSchema(file.rows), file.rows)]
SetIndex_NotInplace(frame, col) == frame
\* DataFrame.set_index(col, inplace=True)
SetIndex(frame, col) == [frame EXCEPT !.index = col]

\* ------------------------------------------------------------------- Spark
\* SparkSession.builder.getOrCreate(): the active session, or a new one
GetOrCreate(s) ==
    IF IsBound(s) /\ s.active THEN s
    ELSE [kind |-> "session", gen |-> (IF IsBound(s) THEN s.gen ELSE 0) + 1,
          active |-> TRUE]
\* SparkSession.stop()
Stop(s) == [s EXCEPT !.active = FALSE]

\* the schema spark.read.csv gives a file with a header line
SparkCsvSchema(file, inferSchema) ==
    IF inferSchema THEN InferredSchema(file.rows) ELSE AllString
SparkReadCsv_AsPandas(s, loc, file) == PandasReadCsv(file)
\* spark.read.option("header", "true").csv(path): a lazy DataFrame over the file
SparkReadCsv(s, loc, file) ==
    [kind |-> "spark", sess |-> s.gen, format |-> "csv", loc |-> loc,
     schema |-> SparkCsvSchema(file, FALSE), filtered |-> FALSE]
\* spark.read.format("io.iguaz.v3io.spark.sql.kv").load(path): a lazy
\* DataFrame over the table, with the table's schema
SparkLoadKv(s, loc, table) ==
    [kind |-> "spark", sess |-> s.gen, format |-> "kv", loc |-> loc,
     schema |-> table.schema, filtered |-> FALSE]
\* DataFrame.where("TradedVolume>20000")
WhereHighVolume(frame) == [frame EXCEPT !.filtered = TRUE]
HighVolume_AtLeast(r) == CastLong(r.TradedVolume) >= VolumeThreshold
HighVolume(r) == CastLong(r.TradedVolume) > VolumeThreshold

\* a Spark DataFrame can run while its session is the active one
Live(s, frame) ==
    /\ IsBound(s) /\ s.active
    /\ IsBound(frame) /\ frame.kind = "spark" /\ frame.sess = s.gen
\* the source of a DataFrame is there to be scanned
Scannable(f, frame) ==
    /\ Exists(f, frame.loc)
    /\ f[frame.loc].kind = (IF frame.format = "csv" THEN "file" ELSE "table")


Min(a, b) == IF a < b THEN a ELSE b
Perms(S) == {s \in [1..Cardinality(S) -> S] : \A x \in S : \E i \in DOMAIN s : s[i] = x}
SelectRows(rows, frame) ==
    SelectSeq(rows, LAMBDA r : ~frame.filtered \/ HighVolume(r))
\* the orders in which a scan of the source can yield its rows: a file in line
\* order, the items of a table in any order
ScanOrders(f, frame) ==
    IF frame.format = "csv"
    THEN {SelectRows(TypedRows(frame.schema, f[frame.loc].rows), frame)}
    ELSE LET items == f[frame.loc].items
         IN  {SelectRows([i \in DOMAIN o |-> items[o[i]]], frame) : o \in Perms(DOMAIN items)}
\* rows cut into n partitions
Split(rows, n) ==
    LET chunk == (Len(rows) + n - 1) \div n
    IN  [i \in 1..n |-> SubSeq(rows, (i - 1) * chunk + 1, Min(i * chunk, Len(rows)))]
\* the partitioned results an execution of the DataFrame can produce
Scan(f, frame) == {Split(rows, n) : rows \in ScanOrders(f, frame), n \in 1..MaxParts}

RECURSIVE Concat(_)
Concat(parts) ==
    IF Len(parts) = 0 THEN <<>> ELSE parts[1] \o Concat(Tail(parts))
Coalesce_None(parts, n) == parts
\* DataFrame.coalesce(n): at most n partitions, no row dropped
Coalesce(parts, n) ==
    IF Len(parts) <= n THEN parts
    ELSE [j \in 1..n |->
            Concat([i \in 1..Len(parts) |->
                      IF (i - 1) % n = j - 1 THEN parts[i] ELSE <<>>])]

\* ------------------------------------------------------------ NoSQL tables
KeyOf(r, key) == ToText(r[key])
\* for every key among the rows, the row that ends up as the item: rows that
\* share a key race for it
Winners(rows, key) ==
    LET keys == {KeyOf(rows[i], key) : i \in 1..Len(rows)}
    IN  {w \in [keys -> 1..Len(rows)] : \A k \in keys : KeyOf(rows[w[k]], key) = k}
Upsert_KeepOld(items, rows, key, w) ==
    [k \in DOMAIN items \cup DOMAIN w |-> IF k \in DOMAIN items THEN items[k] ELSE rows[w[k]]]
Upsert(items, rows, key, w) ==
    [k \in DOMAIN items \cup DOMAIN w |-> IF k \in DOMAIN w THEN rows[w[k]] ELSE items[k]]
\* a write of rows to the table at loc that keeps the items already there
\* (Spark mode "append", Frames write): one item per key value
KvWrite(f, loc, key, schema, rows, w) ==
    LET old == IF Exists(f, loc) /\ f[loc].kind = "table"
               THEN f[loc].items ELSE [k \in {} |-> <<>>]
    IN  Put(MkdirP(f, Parent(loc)), loc,
            TableNode(key, schema, Upsert(old, rows, key, w)))

\* --------------------------------------------------------------- CSV output
PartNames == <<"part-00000", "part-00001", "part-00002", "part-00003",
               "part-00004", "part-00005", "part-00006", "part-00007">>
SuccessName == "_SUCCESS"
\* partition 1 always writes its file; another partition only if it has rows
WritesFile(parts, i) == i = 1 \/ Len(parts[i]) > 0
\* the i-th unused part-file name of the directory
RECURSIVE FreeNames(_, _, _)
FreeNames(f, loc, from) ==
    IF from > Len(PartNames) THEN <<>>
    ELSE IF Exists(f, Append(loc, PartNames[from]))
         THEN FreeNames(f, loc, from + 1)
         ELSE <<PartNames[from]>> \o FreeNames(f, loc, from + 1)
\* DataFrameWriter.mode(mode).csv(path) of a partitioned result
CsvWrite(f, loc, parts, mode) ==
    LET base == IF mode = "overwrite" THEN RmRf(f, loc) ELSE f
        dir == Put(MkdirP(base, Parent(loc)), loc, DirNode)
        names == FreeNames(dir, loc, 1)
        writers == SelectSeq([i \in 1..Len(parts) |-> i], LAMBDA i : WritesFile(parts, i))
        new == {Append(loc, names[j]) : j \in 1..Len(writers)}
        part(l) == CHOOSE j \in 1..Len(writers) : Append(loc, names[j]) = l
    IN  [l \in DOMAIN dir \cup new \cup {Append(loc, SuccessName)} |->
            IF l \in new
            THEN FileNode([i \in 1..Len(parts[writers[part(l)]]) |->
                              WrittenRow(parts[writers[part(l)]][i])])
            ELSE IF l = Append(loc, SuccessName) THEN FileNode(<<>>)
            ELSE dir[l]]
\* the data files of an output directory and the rows they hold
DataFiles(f, loc) ==
    {l \in DOMAIN f : Len(l) = Len(loc) + 1 /\ IsPrefix(loc, l)
                      /\ l[Len(l)] # SuccessName /\ f[l].kind = "file"}
RECURSIVE RowCount(_, _)
RowCount(f, files) ==
    IF files = {} THEN 0
    ELSE LET l == CHOOSE x \in files : TRUE
         IN  Len(f[l].rows) + RowCount(f, files \ {l})
OutputRows(f, loc) ==
    UNION {{f[l].rows[i] : i \in 1..Len(f[l].rows)} : l \in DataFiles(f, loc)}

\* =================================================================== state
VARIABLES
    user,                 \* the running user of the Jupyter service
    remote,               \* the rows of the CSV file in the S3 bucket
    fs,                   \* the platform's data store
    startListing,         \* what the sample directory held before the run
    pc,                   \* the next code cell of the in-order run
    reruns,               \* executions of cells that had already run
    last,                 \* the cell executed last (0: none yet)
    again,                \* the last execution was a re-execution
    raised,               \* the last executed cell ended in an error
    imported,             \* pd, v3f and os are bound
    client,               \* the Frames client
    sample_dir, sample_dir_path, sample_dir_url_path,
    df, nosql_table, spark, myDF2,
    listing,              \* the output of the ls cell
    readme                \* README.ipynb's curl cell: "idle" or "done"

kernel == <<imported, client, sample_dir, sample_dir_path, sample_dir_url_path,
            df, nosql_table, spark, myDF2>>
vars == <<user, remote, fs, startListing, pc, reruns, last, again, raised,
          kernel, listing, readme>>

Done == NumCells + 1
HomeDir(u) == <<"users", u>>
SampleDirLoc(u) == ResolveFs(SampleDirLiteral, u)
EmptyHome(u) == MkdirP(<<>>, HomeDir(u))
\* a table left in the sample directory by an earlier session
StaleTable ==
    TableNode("ISIN", AllString,
              [k \in {<<"B">>} |-> [ISIN |-> Str(<<"B">>),
                                    TradedVolume |-> Str(<<"2", "0", "0", "0", "1">>)]])
InitialStores(u) ==
    { EmptyHome(u),
      MkdirP(EmptyHome(u), SampleDirLoc(u)),
      Put(MkdirP(EmptyHome(u), SampleDirLoc(u)),
          Append(SampleDirLoc(u), "stocks_tab_spark"), StaleTable) }

Init ==
    /\ user \in Users
    /\ remote \in SeqsUpTo(TextRows, MaxRows)
    /\ fs \in InitialStores(user)
    /\ startListing = Ls(fs, SampleDirLoc(user))
    /\ pc = 1
    /\ reruns = 0
    /\ last = 0
    /\ again = FALSE
    /\ raised = FALSE
    /\ imported = FALSE
    /\ client = Unbound
    /\ sample_dir = Unbound
    /\ sample_dir_path = Unbound
    /\ sample_dir_url_path = Unbound
    /\ df = Unbound
    /\ nosql_table = Unbound
    /\ spark = Unbound
    /\ myDF2 = Unbound
    /\ listing = {}
    /\ readme = "idle"

\* cell k runs next in document order, or the user executes again a cell
\* that has already run
CanRun(k) == pc = k \/ (k < pc /\ reruns < MaxReruns)
Ran(k) ==
    /\ pc' = IF pc = k THEN pc + 1 ELSE pc
    /\ reruns' = IF pc = k THEN reruns ELSE reruns + 1
    /\ last' = k
    /\ again' = (pc # k)
    /\ UNCHANGED <<user, remote, startListing, readme>>

\* ------------------------------------------------------------------- cells
\* import pandas as pd / import v3io_frames as v3f / import os
Imports ==
    /\ CanRun(1) /\ Ran(1)
    /\ imported' = TRUE
    /\ raised' = FALSE
    /\ UNCHANGED <<fs, listing, client, sample_dir, sample_dir_path,
                   sample_dir_url_path, df, nosql_table, spark, myDF2>>

\* client = v3f.Client('framesd:8081', container='users')
CreateClient ==
    /\ CanRun(2) /\ Ran(2)
    /\ IF imported
       THEN /\ client' = [kind |-> "client", address |-> "framesd:8081",
                          container |-> "users"]
            /\ raised' = FALSE
       ELSE /\ raised' = TRUE
            /\ UNCHANGED client
    /\ UNCHANGED <<fs, listing, imported, sample_dir, sample_dir_path,
                   sample_dir_url_path, df, nosql_table, spark, myDF2>>

\* sample_dir, sample_dir_path and sample_dir_url_path
InitVariables ==
    /\ CanRun(3) /\ Ran(3)
    /\ IF imported
       THEN /\ sample_dir' = PathJoin(RelPath(<<"examples">>), RelPath(<<"stocks">>))
            /\ sample_dir_path' = PathJoin(FsPath(<<"User">>), sample_dir')
            /\ sample_dir_url_path' = PathJoin(V3ioHomeUrl(user), sample_dir')
            /\ raised' = FALSE
       ELSE /\ raised' = TRUE
            /\ UNCHANGED <<sample_dir, sample_dir_path, sample_dir_url_path>>
    /\ UNCHANGED <<fs, listing, imported, client, df, nosql_table, spark, myDF2>>

MkdirSample_NoParents(f, u) ==
    IF Exists(f, Parent(ResolveFs(SampleDirLiteral, u)))
       /\ ~Exists(f, ResolveFs(SampleDirLiteral, u))
    THEN Put(f, ResolveFs(SampleDirLiteral, u), DirNode)
    ELSE f
MkdirSample(f, u) == MkdirP(f, ResolveFs(SampleDirLiteral, u))
\* !mkdir -p /User/examples/stocks
MakeSampleDir ==
    /\ CanRun(4) /\ Ran(4)
    /\ fs' = MkdirSample(fs, user)
    /\ raised' = FALSE
    /\ UNCHANGED <<listing, kernel>>

\* curl -L <url> > /User/examples/stocks/stocks_example.csv: the shell opens
\* the target for writing, which needs its directory
Download ==
    /\ CanRun(5) /\ Ran(5)
    /\ LET target == ResolveFs(CsvLiteral, user)
       IN  IF IsDirLike(fs, Parent(target)) /\ ~IsDirLike(fs, target)
           THEN /\ fs' = Put(fs, target, FileNode(remote))
                /\ raised' = FALSE
           ELSE /\ raised' = TRUE
                /\ UNCHANGED fs
    /\ UNCHANGED <<listing, kernel>>

IsFile(f, loc) == Exists(f, loc) /\ f[loc].kind = "file"
IsTable(f, loc) == Exists(f, loc) /\ f[loc].kind = "table"
CsvName == RelPath(<<"stocks_example.csv">>)
FramesTableName == RelPath(<<"stocks_example_tab">>)
SparkTableName == RelPath(<<"stocks_tab_spark">>)
HighVolumeName == RelPath(<<"stocks_high_volume.csv">>)

\* df = pd.read_csv(os.path.join(sample_dir_path, 'stocks_example.csv'))
\* df.set_index('ISIN', inplace=True)
PandasRead ==
    /\ CanRun(6) /\ Ran(6)
    /\ IF imported /\ IsBound(sample_dir_path)
          /\ IsFile(fs, ResolveFs(PathJoin(sample_dir_path, CsvName), user))
       THEN /\ df' = SetIndex(
                       PandasReadCsv(fs[ResolveFs(PathJoin(sample_dir_path, CsvName), user)]),
                       "ISIN")
            /\ raised' = FALSE
       ELSE /\ raised' = TRUE
            /\ UNCHANGED df
    /\ UNCHANGED <<fs, listing, imported, client, sample_dir, sample_dir_path,
                   sample_dir_url_path, nosql_table, spark, myDF2>>

\* nosql_table = os.path.join(sample_dir, 'stocks_example_tab')
\* client.write('nosql', nosql_table, df)
FramesWrite ==
    /\ CanRun(7) /\ Ran(7)
    /\ IF imported /\ IsBound(sample_dir)
       THEN /\ nosql_table' = PathJoin(sample_dir, FramesTableName)
            /\ IF IsBound(client) /\ IsBound(df) /\ df.kind = "pandas" /\ df.index # ""
               THEN /\ \E w \in Winners(df.rows, df.index) :
                          fs' = KvWrite(fs, ResolveFrames(client.container, nosql_table', user),
                                        df.index, df.schema, df.rows, w)
                    /\ raised' = FALSE
               ELSE /\ raised' = TRUE
                    /\ UNCHANGED fs
       ELSE /\ raised' = TRUE
            /\ UNCHANGED <<nosql_table, fs>>
    /\ UNCHANGED <<listing, imported, client, sample_dir, sample_dir_path,
                   sample_dir_url_path, df, spark, myDF2>>

\* spark = SparkSession.builder.appName(...).getOrCreate()
\* df = spark.read.option("header", "true").csv(<sample_dir_url_path>/stocks_example.csv)
SparkRead ==
    /\ CanRun(8) /\ Ran(8)
    /\ spark' = GetOrCreate(spark)
    /\ IF imported /\ IsBound(sample_dir_url_path)
          /\ IsFile(fs, ResolveUrl(PathJoin(sample_dir_url_path, CsvName)))
       THEN /\ df' = SparkReadCsv(spark', ResolveUrl(PathJoin(sample_dir_url_path, CsvName)),
                                  fs[ResolveUrl(PathJoin(sample_dir_url_path, CsvName))])
            /\ raised' = FALSE
       ELSE /\ raised' = TRUE
            /\ UNCHANGED df
    /\ UNCHANGED <<fs, listing, imported, client, sample_dir, sample_dir_path,
                   sample_dir_url_path, nosql_table, myDF2>>

\* the column the Spark write names as the table's key
SparkKeyOption_Volume == "TradedVolume"
SparkKeyOption == "ISIN"
\* df.write.format("io.iguaz.v3io.spark.sql.kv").mode("append")
\*   .option("key", "ISIN").option("allow-overwrite-schema", "true")
\*   .save(<sample_dir_url_path>/stocks_tab_spark)
SparkWriteKv ==
    /\ CanRun(9) /\ Ran(9)
    /\ IF imported /\ IsBound(sample_dir_url_path) /\ Live(spark, df) /\ Scannable(fs, df)
       THEN /\ \E parts \in Scan(fs, df) :
                 \E w \in Winners(Concat(parts), SparkKeyOption) :
                    fs' = KvWrite(fs, ResolveUrl(PathJoin(sample_dir_url_path, SparkTableName)),
                                  SparkKeyOption, df.schema, Concat(parts), w)
            /\ raised' = FALSE
       ELSE /\ raised' = TRUE
            /\ UNCHANGED fs
    /\ UNCHANGED <<listing, kernel>>

\* myDF2 = spark.read.format("io.iguaz.v3io.spark.sql.kv")
\*   .load(<sample_dir_url_path>/stocks_tab_spark).where("TradedVolume>20000")
SparkLoad ==
    /\ CanRun(10) /\ Ran(10)
    /\ IF imported /\ IsBound(sample_dir_url_path) /\ IsBound(spark) /\ spark.active
          /\ IsTable(fs, ResolveUrl(PathJoin(sample_dir_url_path, SparkTableName)))
       THEN /\ myDF2' = WhereHighVolume(
                          SparkLoadKv(spark,
                                      ResolveUrl(PathJoin(sample_dir_url_path, SparkTableName)),
                                      fs[ResolveUrl(PathJoin(sample_dir_url_path, SparkTableName))]))
            /\ raised' = FALSE
       ELSE /\ raised' = TRUE
            /\ UNCHANGED myDF2
    /\ UNCHANGED <<fs, listing, imported, client, sample_dir, sample_dir_path,
                   sample_dir_url_path, df, nosql_table, spark>>

WriteMode_Append == "append"
\* the save mode of the CSV write
WriteMode == "overwrite"
\* myDF2.coalesce(1).write.mode('overwrite')
\*   .csv(<sample_dir_url_path>/stocks_high_volume.csv)
SparkWriteCsv ==
    /\ CanRun(11) /\ Ran(11)
    /\ IF imported /\ IsBound(sample_dir_url_path) /\ Live(spark, myDF2)
          /\ Scannable(fs, myDF2)
       THEN /\ \E parts \in Scan(fs, myDF2) :
                 fs' = CsvWrite(fs, ResolveUrl(PathJoin(sample_dir_url_path, HighVolumeName)),
                                Coalesce(parts, CoalesceTarget), WriteMode)
            /\ raised' = FALSE
       ELSE /\ raised' = TRUE
            /\ UNCHANGED fs
    /\ UNCHANGED <<listing, kernel>>

\* !ls -l /User/examples/stocks/
ListSampleDir ==
    /\ CanRun(12) /\ Ran(12)
    /\ listing' = Ls(fs, ResolveFs(SampleDirLiteral, user))
    /\ raised' = FALSE
    /\ UNCHANGED <<fs, kernel>>

DeleteDataEffect_Uncommented(f, u) == RmRf(f, ResolveFs(SampleDirLiteral, u))
\* #!rm -rf /User/examples/stocks/   (a comment: the cell runs nothing)
DeleteDataEffect(f, u) == f
DeleteData ==
    /\ CanRun(13) /\ Ran(13)
    /\ fs' = DeleteDataEffect(fs, user)
    /\ raised' = FALSE
    /\ UNCHANGED <<listing, kernel>>

\* spark.stop()
SparkStop ==
    /\ CanRun(14) /\ Ran(14)
    /\ IF IsBound(spark)
       THEN /\ spark' = Stop(spark)
            /\ raised' = FALSE
       ELSE /\ raised' = TRUE
            /\ UNCHANGED spark
    /\ UNCHANGED <<fs, listing, imported, client, sample_dir, sample_dir_path,
                   sample_dir_url_path, df, nosql_table, myDF2>>

Next ==
    \/ Imports
    \/ CreateClient
    \/ InitVariables
    \/ MakeSampleDir
    \/ Download
    \/ PandasRead
    \/ FramesWrite
    \/ SparkRead
    \/ SparkWriteKv
    \/ SparkLoad
    \/ SparkWriteCsv
    \/ ListSampleDir
    \/ DeleteData
    \/ SparkStop

Spec == Init /\ [][Next]_vars

TypeOK ==
    /\ pc \in 1..Done
    /\ reruns \in 0..MaxReruns
    /\ last \in 0..NumCells
    /\ again \in BOOLEAN
    /\ raised \in BOOLEAN
    /\ imported \in BOOLEAN

\* ------------------------------------------------------------ README.ipynb
\* README.ipynb has one code cell, run by a kernel of its own over the same
\* data store.
ReadmeCsvLiteral == FsPath(<<"User", "examples", "stocks.csv">>)
\* the states the running user's home directory can be in before the cell
ReadmeStores(u) ==
    InitialStores(u) \cup
    { MkdirP(EmptyHome(u), Parent(ResolveFs(ReadmeCsvLiteral, u))),
      Put(MkdirP(EmptyHome(u), Parent(ResolveFs(ReadmeCsvLiteral, u))),
          ResolveFs(ReadmeCsvLiteral, u), FileNode(<<>>)) }

InitReadme ==
    /\ user \in Users
    /\ remote \in SeqsUpTo(TextRows, MaxRows)
    /\ fs \in ReadmeStores(user)
    /\ startListing = Ls(fs, SampleDirLoc(user))
    /\ pc = 1
    /\ reruns = 0
    /\ last = 0
    /\ again = FALSE
    /\ raised = FALSE
    /\ imported = FALSE
    /\ client = Unbound
    /\ sample_dir = Unbound
    /\ sample_dir_path = Unbound
    /\ sample_dir_url_path = Unbound
    /\ df = Unbound
    /\ nosql_table = Unbound
    /\ spark = Unbound
    /\ myDF2 = Unbound
    /\ listing = {}
    /\ readme = "idle"

\* %%sh
\* CSV_PATH="/User/examples/stocks.csv"
\* curl -L <url> > ${CSV_PATH}: the shell opens the target for writing, which
\* needs its directory
ReadmeCurl ==
    /\ readme = "idle" \/ reruns < MaxReruns
    /\ readme' = "done"
    /\ reruns' = IF readme = "idle" THEN reruns ELSE reruns + 1
    /\ LET target == ResolveFs(ReadmeCsvLiteral, user)
       IN  IF IsDirLike(fs, Parent(target)) /\ ~IsDirLike(fs, target)
           THEN /\ fs' = Put(fs, target, FileNode(remote))
                /\ raised' = FALSE
           ELSE /\ raised' = TRUE
                /\ UNCHANGED fs
    /\ UNCHANGED <<user, remote, startListing, pc, last, again, listing, kernel>>

NextReadme == ReadmeCurl

SpecReadme == InitReadme /\ [][NextReadme]_vars

\* ================================================================== claims
\* the locations the notebook's text names, in the "users" container
ExpectedSampleDir == <<"users", user, "examples", "stocks">>
ExpectedCsv == Append(ExpectedSampleDir, "stocks_example.csv")
ExpectedSparkTable == Append(ExpectedSampleDir, "stocks_tab_spark")
ExpectedHighVolume == Append(ExpectedSampleDir, "stocks_high_volume.csv")
NumberOf(v) == ParseInt(ToText(v))
RowSet(rows) == {rows[i] : i \in 1..Len(rows)}
ItemsOf(loc) == {fs[loc].items[k] : k \in DOMAIN fs[loc].items}

\* C1: the NoSQL-to-CSV step reads the table path the CSV-to-NoSQL step wrote
\* (<sample dir>/stocks_tab_spark), and the rows it writes to
\* stocks_high_volume.csv are exactly the items of that table whose
\* TradedVolume is greater than 20000.
C1_HighVolumeRowsExactly ==
    /\ (last = 9 /\ ~raised) =>
          /\ IsTable(fs, ExpectedSparkTable)
          /\ \A r \in RowSet(fs[ExpectedCsv].rows) :
                r.ISIN \in DOMAIN fs[ExpectedSparkTable].items
    /\ (last = 10 /\ ~raised) =>
          myDF2.format = "kv" /\ myDF2.loc = ExpectedSparkTable
    /\ (last = 11 /\ ~raised) =>
          /\ myDF2.loc = ExpectedSparkTable
          /\ IsTable(fs, ExpectedSparkTable)
          /\ OutputRows(fs, ExpectedHighVolume) =
                {WrittenRow(it) : it \in {x \in ItemsOf(ExpectedSparkTable) :
                                             NumberOf(x.TradedVolume) > VolumeThreshold}}
C1_Witness ==
    /\ last = 11 /\ ~raised
    /\ \E x \in ItemsOf(ExpectedSparkTable) : NumberOf(x.TradedVolume) > VolumeThreshold
    /\ \E x \in ItemsOf(ExpectedSparkTable) : NumberOf(x.TradedVolume) <= VolumeThreshold
    /\ OutputRows(fs, ExpectedHighVolume) # {}

\* C2: the CSV-to-NoSQL step writes the Spark DataFrame read from
\* stocks_example.csv to the table stocks_tab_spark in the sample directory
\* that holds the CSV file, with ISIN as the table's primary key.
C2_SparkTableKeyedByISIN ==
    (last = 9 /\ ~raised) =>
        /\ df.kind = "spark" /\ df.format = "csv" /\ df.loc = ExpectedCsv
        /\ IsFile(fs, ExpectedCsv)
        /\ Parent(ExpectedSparkTable) = Parent(ExpectedCsv)
        /\ IsTable(fs, ExpectedSparkTable)
        /\ fs[ExpectedSparkTable].key = "ISIN"
        /\ \A k \in DOMAIN fs[ExpectedSparkTable].items :
              ToText(fs[ExpectedSparkTable].items[k].ISIN) = k
        /\ \A r \in RowSet(fs[ExpectedCsv].rows) :
              /\ r.ISIN \in DOMAIN fs[ExpectedSparkTable].items
              /\ \E q \in RowSet(fs[ExpectedCsv].rows) :
                    fs[ExpectedSparkTable].items[r.ISIN] = TypedRow(df.schema, q)
C2_Witness ==
    /\ last = 9 /\ ~raised /\ ~again
    /\ Len(fs[ExpectedCsv].rows) = 2
    /\ Cardinality(DOMAIN fs[ExpectedSparkTable].items) = 2

\* C3: the pandas step reads the ingested stocks_example.csv from the sample
\* directory and sets ISIN as the index; the Frames step writes that
\* ISIN-indexed pandas DataFrame with the nosql backend to the table
\* stocks_example_tab, whose items are keyed by ISIN.
FramesTables ==
    {l \in DOMAIN fs : fs[l].kind = "table" /\ l[Len(l)] = "stocks_example_tab"}
C3_FramesTableKeyedByISIN ==
    /\ (last = 6 /\ ~raised) =>
          /\ df.kind = "pandas" /\ df.index = "ISIN"
          /\ Len(df.rows) = Len(fs[ExpectedCsv].rows)
          /\ \A i \in 1..Len(df.rows) : WrittenRow(df.rows[i]) = fs[ExpectedCsv].rows[i]
    /\ (last \in {6, 7} /\ reruns = 0) => ~raised
    /\ (last = 7 /\ ~raised) =>
          /\ df.kind = "pandas" /\ df.index = "ISIN"
          /\ Cardinality(FramesTables) = 1
          /\ \A t \in FramesTables :
                /\ fs[t].key = "ISIN"
                /\ \A k \in DOMAIN fs[t].items : ToText(fs[t].items[k].ISIN) = k
                /\ \A r \in RowSet(df.rows) :
                      /\ ToText(r.ISIN) \in DOMAIN fs[t].items
                      /\ fs[t].items[ToText(r.ISIN)] \in RowSet(df.rows)
C3_Witness ==
    /\ last = 7 /\ ~raised /\ ~again
    /\ Len(df.rows) = 2
    /\ \E t \in FramesTables : Cardinality(DOMAIN fs[t].items) = 2

\* C4: in document order the sample directory /User/examples/stocks exists
\* before the download writes into it, and after the download the regular
\* file /User/examples/stocks/stocks_example.csv exists in the running user's
\* directory of the "users" container.
C4_DirBeforeDownloadFileAfter ==
    /\ pc = 5 => IsDirLike(fs, ExpectedSampleDir)
    /\ last = 5 => ~raised
    /\ pc > 5 => IsFile(fs, ExpectedCsv) /\ fs[ExpectedCsv].rows = remote
C4_Witness ==
    /\ pc = 6 /\ last = 5 /\ ~again
    /\ startListing = {}
    /\ IsFile(fs, ExpectedCsv) /\ Len(fs[ExpectedCsv].rows) > 0

\* C5: /User/examples/stocks (sample_dir_path) and
\* $V3IO_HOME_URL/examples/stocks (sample_dir_url_path) denote the same
\* directory users/<running user>/examples/stocks: the file curl writes through
\* the /User mount is the file Spark reads through the v3io:// URL, and what
\* Spark writes through the URL is listed under /User/examples/stocks.
C5_MountAndUrlSameDirectory ==
    /\ IsBound(sample_dir_path) =>
          /\ IsBound(sample_dir_url_path)
          /\ ResolveFs(sample_dir_path, user) = ExpectedSampleDir
          /\ ResolveUrl(sample_dir_url_path) = ExpectedSampleDir
          /\ ResolveFs(SampleDirLiteral, user) = ExpectedSampleDir
    /\ (last = 8 /\ ~raised) =>
          df.kind = "spark" /\ df.loc = ResolveFs(CsvLiteral, user)
    /\ (last = 8 /\ reruns = 0) => ~raised
    /\ (last = 9 /\ ~raised) =>
          [name |-> "stocks_tab_spark", type |-> "d"]
              \in Ls(fs, ResolveFs(SampleDirLiteral, user))
    /\ (last = 11 /\ ~raised) =>
          [name |-> "stocks_high_volume.csv", type |-> "d"]
              \in Ls(fs, ResolveFs(SampleDirLiteral, user))
C5_Witness ==
    /\ last = 11 /\ ~raised /\ startListing = {}
    /\ IsFile(fs, ResolveFs(CsvLiteral, user))
    /\ df.loc = ResolveFs(CsvLiteral, user)
    /\ Cardinality(Ls(fs, ResolveFs(SampleDirLiteral, user))) = 3

\* C6: the write of stocks_high_volume.csv uses coalesce(1): whatever the
\* number of partitions of the filtered DataFrame, the output holds exactly
\* one data file.
C6_SingleDataFile ==
    (last = 11 /\ ~raised) =>
        Cardinality(DataFiles(fs, ExpectedHighVolume)) = 1
C6_Witness ==
    /\ last = 11 /\ ~raised
    /\ Cardinality(DataFiles(fs, ExpectedHighVolume)) = 1
    /\ RowCount(fs, DataFiles(fs, ExpectedHighVolume)) >= 2

\* C7: after the cells up to the listing cell have run in document order from
\* an empty sample directory, /User/examples/stocks holds exactly three
\* entries: the regular file stocks_example.csv and the directories
\* stocks_high_volume.csv and stocks_tab_spark.
C7_ListingThreeEntries ==
    (last = 12 /\ reruns = 0 /\ startListing = {}) =>
        listing = { [name |-> "stocks_example.csv", type |-> "-"],
                    [name |-> "stocks_high_volume.csv", type |-> "d"],
                    [name |-> "stocks_tab_spark", type |-> "d"] }
C7_Witness ==
    /\ last = 12 /\ reruns = 0 /\ startListing = {}
    /\ Cardinality(listing) = 3
    /\ \E l \in DOMAIN fs : l[Len(l)] = "stocks_example_tab"

\* C8: the Cleanup section deletes no data: its delete command is commented
\* out, so running every cell leaves /User/examples/stocks and everything the
\* earlier cells created unchanged, and the only effect of the section is
\* that the Spark session is stopped.
C8_CleanupKeepsData ==
    /\ []((pc = Done /\ reruns = 0) =>
            /\ IsFile(fs, ExpectedCsv)
            /\ IsTable(fs, ExpectedSparkTable)
            /\ IsDirLike(fs, ExpectedHighVolume))
    /\ [][last' \in {13, 14} =>
            /\ fs' = fs
            /\ listing' = listing
            /\ <<imported, client, sample_dir, sample_dir_path, sample_dir_url_path,
                 df, nosql_table, myDF2>>' =
               <<imported, client, sample_dir, sample_dir_path, sample_dir_url_path,
                 df, nosql_table, myDF2>>
            /\ last' = 13 => spark' = spark
            /\ last' = 14 => ~raised' /\ ~spark'.active]_vars
C8_Witness ==
    /\ pc = Done /\ last = 14 /\ reruns = 0
    /\ ~spark.active
    /\ IsFile(fs, ExpectedCsv)
    /\ DataFiles(fs, ExpectedHighVolume) # {}

\* C9: the Spark read of stocks_example.csv lets Spark infer the file's
\* schema: the columns of the DataFrame get the types of the file's values
\* rather than one fixed type for every column.
C9_SparkInfersSchema ==
    (last = 8 /\ ~raised) =>
        df.schema = InferredSchema(fs[ExpectedCsv].rows)

\* C10: the NoSQL-to-CSV write uses mode 'overwrite': run again over an
\* unchanged table when stocks_high_volume.csv exists, it does not fail and
\* the output equals the output of a single run, with no row accumulated or
\* duplicated.
C10_OverwriteIdempotent ==
    [][(last = 11 /\ ~raised /\ last' = 11) =>
          /\ ~raised'
          /\ OutputRows(fs', ExpectedHighVolume) = OutputRows(fs, ExpectedHighVolume)
          /\ RowCount(fs', DataFiles(fs', ExpectedHighVolume)) =
                RowCount(fs, DataFiles(fs, ExpectedHighVolume))
          /\ RowCount(fs', DataFiles(fs', ExpectedHighVolume)) =
                Cardinality(OutputRows(fs', ExpectedHighVolume))]_vars
C10_Witness ==
    /\ pc = 12 /\ last = 11 /\ again /\ reruns = 1 /\ ~raised
    /\ OutputRows(fs, ExpectedHighVolume) # {}

\* C11: the curl cell of README.ipynb, run on its own from any initial state
\* of the running user's home directory, ingests the sample file: after the
\* cell the file /User/examples/stocks.csv exists and holds the downloaded
\* data.
ExpectedReadmeCsv == <<"users", user, "examples", "stocks.csv">>
C11_ReadmeCurlIngests ==
    readme = "done" =>
        /\ IsFile(fs, ExpectedReadmeCsv)
        /\ fs[ExpectedReadmeCsv].rows = remote

\* C12: every file, directory and NoSQL table that file-access.ipynb creates
\* lies under the running user's sample directory
\* users/<running user>/examples/stocks (whose missing parents mkdir -p
\* creates), so rm -rf /User/examples/stocks/ removes all data the notebook
\* created; in particular the table written through the Frames client lies
\* under that directory.
C12_AllCreatedUnderSampleDir ==
    /\ \A l \in DOMAIN fs :
          IsPrefix(ExpectedSampleDir, l) \/ l \in Ancestors(ExpectedSampleDir)
    /\ DOMAIN RmRf(fs, ResolveFs(SampleDirLiteral, user))
          \subseteq Ancestors(Parent(ExpectedSampleDir))
    /\ (last = 7 /\ ~raised) =>
          \E t \in FramesTables : IsPrefix(ExpectedSampleDir, t)

\* C13 (as claimed): after the Spark write with key ISIN, and after the Frames
\* write of the ISIN-indexed DataFrame, the table holds one item per row of
\* stocks_example.csv, also when several rows share an ISIN value.
C13_OneItemPerRow ==
    /\ (last = 9 /\ ~raised /\ startListing = {}) =>
          Cardinality(DOMAIN fs[ExpectedSparkTable].items) = Len(fs[ExpectedCsv].rows)
    /\ (last = 7 /\ ~raised) =>
          \A t \in FramesTables : Cardinality(DOMAIN fs[t].items) = Len(df.rows)

\* C13 (amended): after either write the table holds one item per distinct
\* ISIN value of stocks_example.csv, the item being one of the file's rows
\* with that ISIN (a table that existed before keeps its items under other
\* ISIN values); it holds one item per row only when no two rows share an ISIN.
FileKeys == {r.ISIN : r \in RowSet(fs[ExpectedCsv].rows)}
FileRowsOf(k) == {r \in RowSet(fs[ExpectedCsv].rows) : r.ISIN = k}
C13_OneItemPerDistinctISIN ==
    /\ (last = 9 /\ ~raised) =>
          /\ FileKeys \subseteq DOMAIN fs[ExpectedSparkTable].items
          /\ \A k \in FileKeys :
                WrittenRow(fs[ExpectedSparkTable].items[k]) \in FileRowsOf(k)
          /\ startListing = {} => DOMAIN fs[ExpectedSparkTable].items = FileKeys
          /\ (startListing = {} /\ Cardinality(FileKeys) = Len(fs[ExpectedCsv].rows)) =>
                Cardinality(DOMAIN fs[ExpectedSparkTable].items) = Len(fs[ExpectedCsv].rows)
    /\ (last = 7 /\ ~raised) =>
          \A t \in FramesTables :
             /\ DOMAIN fs[t].items = FileKeys
             /\ \A k \in FileKeys : WrittenRow(fs[t].items[k]) \in FileRowsOf(k)
C13_Witness ==
    /\ last = 9 /\ ~raised /\ startListing = {}
    /\ Len(fs[ExpectedCsv].rows) = 2
    /\ fs[ExpectedCsv].rows[1].ISIN = fs[ExpectedCsv].rows[2].ISIN
    /\ fs[ExpectedCsv].rows[1] # fs[ExpectedCsv].rows[2]
    /\ Cardinality(DOMAIN fs[ExpectedSparkTable].items) = 1
    /\ \E t \in FramesTables : Cardinality(DOMAIN fs[t].items) = 1

\* C14 (as claimed): the name df is bound twice; the Frames write cell
\* receives the pandas DataFrame indexed by ISIN and the Spark write cell the
\* Spark DataFrame, in the in-order run and in every order in which the user
\* executes cells after one full in-order run.
C14_RightFrameInEveryOrder ==
    /\ (last = 7 /\ (reruns = 0 \/ pc = Done)) =>
          df.kind = "pandas" /\ df.index = "ISIN"
    /\ (last = 9 /\ (reruns = 0 \/ pc = Done)) =>
          df.kind = "spark"

\* C14 (amended): the name df is bound twice; when the cells run in document
\* order the Frames write cell receives the pandas DataFrame indexed by ISIN
\* and the Spark write cell the Spark DataFrame, and both succeed.  In another
\* order a write cell receives what the read cell executed last bound to df,
\* and raises when that is the other kind of DataFrame.
C14_RightFrameInDocumentOrder ==
    /\ (last = 7 /\ reruns = 0) =>
          ~raised /\ df.kind = "pandas" /\ df.index = "ISIN"
    /\ (last = 9 /\ reruns = 0) =>
          ~raised /\ df.kind = "spark"
    /\ (last = 7 /\ df.kind # "pandas") => raised
    /\ (last = 9 /\ df.kind # "spark") => raised
C14_Witness ==
    /\ pc = Done /\ last = 7 /\ again /\ raised
    /\ df.kind = "spark"
    /\ IsTable(fs, ExpectedSparkTable)
====
